---- MODULE Spec2Model ----
(***************************************************************************)
(* Model of python/pathway/internals/schema.py: schema construction        *)
(* (schema_builder, schema_from_types, schema_from_csv, schema_from_pandas,*)
(* schema_from_dict, update_types, schema_add) and schema comparison       *)
(* (assert_equal_to, is_subschema, __eq__/__hash__).                       *)
(*                                                                         *)
(* A Python dict is a sequence of <<key, value>> pairs with distinct keys, *)
(* in insertion order.  A schema class is a record holding the class       *)
(* attributes the code reads: __name__, __properties__, __annotations__,   *)
(* the column-definition attributes (what _cls_fields returns),            *)
(* __columns__, __dtypes__ and __types__.                                  *)
(***************************************************************************)
EXTENDS Integers, Sequences, FiniteSets, TLC

VARIABLES self, other, call

vars == <<self, other, call>>

\* ------------------------------------------------------------------ bounds

\* Largest number of columns of a schema given to a construction call.
MaxCols == 2

\* Largest number of data rows of a CSV file.
MaxRows == 2

\* ------------------------------------------------------------ Python values

None == "None"

\* _no_default_value_marker: the "no default" sentinel.
Undefined == "undefined"

ColName == <<"x", "y", "z", "w", "v">>

\* The column (attribute) names the inputs draw from: one per allowed column.
Names == {ColName[i] : i \in 1..MaxCols}

\* Data types of pathway.internals.dtype used by the model.
DTypes == {"INT", "FLOAT", "STR", "ANY", "Optional(INT)"}

\* dt.wrap: a native type (int, float, str, typing.Any) becomes its DType; a
\* DType is returned as it is.
wrap(t) ==
  CASE t = "int" -> "INT"
    [] t = "float" -> "FLOAT"
    [] t = "str" -> "STR"
    [] t = "Any" -> "ANY"
    [] OTHER -> t

\* DType.typehint: the Python type hint of a DType.
typehint(d) ==
  CASE d = "INT" -> "int"
    [] d = "FLOAT" -> "float"
    [] d = "STR" -> "str"
    [] d = "ANY" -> "Any"
    [] d = "Optional(INT)" -> "Optional[int]"
    [] OTHER -> d

\* dt.dtype_issubclass: the subtype relation of the type algebra.
dtype_issubclass(l, r) ==
  \/ l = r
  \/ r = "ANY"
  \/ l = "INT" /\ r = "Optional(INT)"

\* ------------------------------------------------------------------- dicts

Range(s) == {s[i] : i \in 1..Len(s)}

\* A comprehension's list, its items evaluated once, when it is built.
list(s) == s \o <<>>

\* list(d.keys())
Keys(d) == list([i \in 1..Len(d) |-> d[i][1]])

\* d.keys() as the set-like view the comparison operators work on
KeySet(d) == {d[i][1] : i \in 1..Len(d)}

\* k in d
HasKey(d, k) == \E i \in 1..Len(d) : d[i][1] = k

\* d[k], for k in d
Get(d, k) == d[CHOOSE i \in 1..Len(d) : d[i][1] = k][2]

\* d[k] = v: a present key keeps its position, a new key goes last
Put(d, k, v) ==
  IF HasKey(d, k)
  THEN list([i \in 1..Len(d) |-> IF d[i][1] = k THEN <<k, v>> ELSE d[i]])
  ELSE Append(d, <<k, v>>)

\* d without key k (d.pop(k, ...) as far as d is concerned)
Remove(d, k) == SelectSeq(d, LAMBDA p : p[1] # k)

\* All sequences of length at most n of distinct elements of S.
RECURSIVE DistinctSeqs(_, _)
DistinctSeqs(S, n) ==
  IF n = 0 THEN {<<>>}
  ELSE LET shorter == DistinctSeqs(S, n - 1)
       IN shorter \cup UNION {{Append(s, e) : e \in S \ Range(s)} :
                                s \in {t \in shorter : Len(t) = n - 1}}

\* ------------------------------------------------------- column definitions

\* ColumnDefinition(primary_key, default_value, dtype, name)
ColumnDefinition(primary_key, default_value, dtype, name) ==
  [primary_key |-> primary_key, default_value |-> default_value,
   dtype |-> dtype, name |-> name]

\* column_definition(primary_key=.., default_value=.., dtype=.., name=..)
column_definition(primary_key, default_value, dtype, name) ==
  ColumnDefinition(primary_key, default_value,
                   IF dtype # None THEN wrap(dtype) ELSE None, name)

\* ColumnSchema(primary_key, default_value, dtype, name, append_only)
ColumnSchema(primary_key, default_value, dtype, name, append_only) ==
  [primary_key |-> primary_key, default_value |-> default_value,
   dtype |-> dtype, name |-> name, append_only |-> append_only]

\* to_definition without the primary-key flag.
to_definition_plain(col) ==
  ColumnDefinition(FALSE, col.default_value, col.dtype, col.name)

\* ColumnSchema.to_definition
to_definition(col) ==
  ColumnDefinition(col.primary_key, col.default_value, col.dtype, col.name)

\* dataclasses.replace(definition, dtype=dtype)
replace_dtype(definition, dtype) == [definition EXCEPT !.dtype = dtype]

\* SchemaProperties(append_only=..)
SchemaProperties(append_only) == [append_only |-> append_only]

\* ------------------------------------------------- the construction pipeline

\* A schema's __name__ is a sequence of words; name=None is the empty one.
NoName == <<>>

NoSchema == [status |-> "none"]

Raised(error) == [status |-> error]

\* The loop of _create_column_definitions from the i-th annotation on: fields
\* are the definitions not yet consumed, columns the columns resolved so far.
\* Every attribute of the classes built here is a ColumnDefinition, so the
\* isinstance check of the loop passes.
RECURSIVE ColumnLoop(_, _, _, _, _)
ColumnLoop(annotations, i, fields, columns, append_only) ==
  IF i > Len(annotations)
  THEN IF Len(fields) > 0
       THEN Raised("ValueError")
       ELSE [status |-> "ok", columns |-> columns]
  ELSE LET name == annotations[i][1]
           col_dtype == wrap(annotations[i][2])
           column == IF HasKey(fields, name)
                     THEN Get(fields, name)
                     ELSE column_definition(FALSE, Undefined, col_dtype, None)
           dtype == IF column.dtype = None THEN col_dtype ELSE column.dtype
           resolved == IF column.name # None THEN column.name ELSE name
       IN IF col_dtype # dtype
          THEN Raised("TypeError")
          ELSE ColumnLoop(annotations, i + 1, Remove(fields, name),
                          Put(columns, resolved,
                              ColumnSchema(column.primary_key,
                                           column.default_value, wrap(dtype),
                                           resolved, append_only)),
                          append_only)

\* _create_column_definitions giving every column append_only=False.
_create_column_definitions_default(annotations, fields, properties) ==
  ColumnLoop(annotations, 1, fields, <<>>, FALSE)

\* _create_column_definitions(schema): reads the schema's annotations, its
\* column-definition attributes and its properties.
_create_column_definitions(annotations, fields, properties) ==
  ColumnLoop(annotations, 1, fields, <<>>, properties.append_only)

\* {name: column.dtype for name, column in self.__columns__.items()}
DtypesOf(columns) ==
  list([i \in 1..Len(columns) |-> <<columns[i][1], columns[i][2].dtype>>])

\* {k: v.typehint for k, v in self.__dtypes__.items()}
TypesOf(dtypes) ==
  list([i \in 1..Len(dtypes) |-> <<dtypes[i][1], typehint(dtypes[i][2])>>])

\* SchemaMetaclass(name, (Schema,), dict, append_only=..): the class with the
\* attributes SchemaMetaclass.__init__ sets, or the error raised meanwhile.
SchemaMetaclass(name, annotations, fields, append_only) ==
  LET properties == SchemaProperties(append_only)
      made == _create_column_definitions(annotations, fields, properties)
  IN IF made.status # "ok"
     THEN made
     ELSE [status |-> "ok",
           name |-> name,
           properties |-> properties,
           annotations |-> annotations,
           fields |-> fields,
           columns |-> made.columns,
           dtypes |-> DtypesOf(made.columns),
           types |-> TypesOf(DtypesOf(made.columns))]

\* _schema_builder(_name, _dict, properties=..)
_schema_builder(name, annotations, fields, properties) ==
  SchemaMetaclass(name, annotations, fields, properties.append_only)

\* {name: c.dtype or Any for name, c in columns.items()}
AnnotationsOf(columns) ==
  list([i \in 1..Len(columns) |->
          <<columns[i][1],
            IF columns[i][2].dtype # None THEN columns[i][2].dtype ELSE "Any">>])

\* schema_builder(columns, name=.., properties=..)
schema_builder(columns, name, properties) ==
  LET given == IF name = NoName THEN <<"custom_schema">> \o Keys(columns)
               ELSE name
      annotations == AnnotationsOf(columns)
  IN _schema_builder(given, annotations, columns, properties)

\* schema_from_types(_name=.., **kwargs)
schema_from_types(name, kwargs) ==
  LET given == IF name = NoName THEN <<"schema">> \o Keys(kwargs) ELSE name
  IN _schema_builder(given, kwargs, <<>>, SchemaProperties(FALSE))

\* dict(ChainMap(*maps)): the keys of the last map first, then the new keys of
\* the one before it, and so on; each key's value is the one of the first map
\* that has the key.
RECURSIVE ChainKeys(_, _, _)
ChainKeys(maps, i, acc) ==
  IF i = 0 THEN acc
  ELSE LET keys == Keys(maps[i])
           fresh == SelectSeq(keys, LAMBDA k : ~\E j \in 1..Len(acc) : acc[j] = k)
       IN ChainKeys(maps, i - 1, acc \o fresh)

ChainLookup(maps, k) ==
  Get(maps[CHOOSE i \in 1..Len(maps) :
              /\ HasKey(maps[i], k)
              /\ \A j \in 1..(i - 1) : ~HasKey(maps[j], k)], k)

\* dict(ChainMap(*maps)) with the keys of the first map first.
ChainMapDictForward(maps) ==
  LET reversed == list([i \in 1..Len(maps) |-> maps[Len(maps) + 1 - i]])
      keys == ChainKeys(reversed, Len(maps), <<>>)
  IN list([i \in 1..Len(keys) |-> <<keys[i], ChainLookup(maps, keys[i])>>])

ChainMapDict(maps) ==
  LET keys == ChainKeys(maps, Len(maps), <<>>)
  IN list([i \in 1..Len(keys) |-> <<keys[i], ChainLookup(maps, keys[i])>>])

\* sum([len(m) for m in maps])
RECURSIVE SumLen(_, _)
SumLen(maps, i) == IF i > Len(maps) THEN 0 ELSE Len(maps[i]) + SumLen(maps, i + 1)

\* "_".join(schema.__name__ for schema in schemas)
RECURSIVE JoinNames(_, _)
JoinNames(schemas, i) ==
  IF i > Len(schemas) THEN <<>>
  ELSE schemas[i].name \o (IF i < Len(schemas) THEN <<"_">> ELSE <<>>)
                       \o JoinNames(schemas, i + 1)

\* get_type_hints(schema): the class's annotations
get_type_hints(schema) == schema.annotations

\* _cls_fields(schema): the class attributes whose name has no "__" prefix,
\* which are the column definitions the class was built with
_cls_fields(schema) == schema.fields

\* schema_add giving the result the properties of its first argument.
schema_add_inheriting(schemas) ==
  LET annots_list == list([i \in 1..Len(schemas) |-> get_type_hints(schemas[i])])
      annotations == ChainMapDict(annots_list)
      fields_list == list([i \in 1..Len(schemas) |-> _cls_fields(schemas[i])])
      fields == ChainMapDict(fields_list)
  IN IF Len(annotations) # SumLen(annots_list, 1)
     THEN Raised("AssertionError")
     ELSE IF Len(fields) # SumLen(fields_list, 1)
     THEN Raised("AssertionError")
     ELSE _schema_builder(JoinNames(schemas, 1), annotations, fields,
                          schemas[1].properties)

\* schema_add(*schemas)
schema_add(schemas) ==
  LET annots_list == list([i \in 1..Len(schemas) |-> get_type_hints(schemas[i])])
      annotations == ChainMapDict(annots_list)
      fields_list == list([i \in 1..Len(schemas) |-> _cls_fields(schemas[i])])
      fields == ChainMapDict(fields_list)
  IN IF Len(annotations) # SumLen(annots_list, 1)
     THEN Raised("AssertionError")
     ELSE IF Len(fields) # SumLen(fields_list, 1)
     THEN Raised("AssertionError")
     ELSE _schema_builder(JoinNames(schemas, 1), annotations, fields,
                          SchemaProperties(FALSE))

\* The loop of update_types over kwargs.items() from the i-th item on.
RECURSIVE UpdateLoop(_, _, _)
UpdateLoop(columns, kwargs, i) ==
  IF i > Len(kwargs) THEN [status |-> "ok", columns |-> columns]
  ELSE LET name == kwargs[i][1]
           dtype == kwargs[i][2]
       IN IF ~HasKey(columns, name)
          THEN Raised("ValueError")
          ELSE UpdateLoop(Put(columns, name,
                              replace_dtype(Get(columns, name), wrap(dtype))),
                          kwargs, i + 1)

\* The dict comprehension {col.name: col.to_definition() for col in
\* self.__columns__.values()} from the i-th column on.
RECURSIVE DefinitionsOf(_, _, _)
DefinitionsOf(columns, i, acc) ==
  IF i > Len(columns) THEN acc
  ELSE DefinitionsOf(columns, i + 1,
                     Put(acc, columns[i][2].name, to_definition(columns[i][2])))

\* SchemaMetaclass.update_types(self, **kwargs)
update_types(schema, kwargs) ==
  LET columns == DefinitionsOf(schema.columns, 1, <<>>)
      updated == UpdateLoop(columns, kwargs, 1)
  IN IF updated.status # "ok"
     THEN updated
     ELSE schema_builder(updated.columns, NoName, schema.properties)

\* ------------------------------------------------------ queries, comparison

\* SchemaMetaclass.typehints
typehints(schema) == schema.types

\* SchemaMetaclass.keys
keys(schema) == KeySet(schema.columns)

\* SchemaMetaclass.primary_key_columns: the names of the primary-key columns
\* in column order, or None when there is none
primary_key_columns(schema) ==
  LET pkey_fields == Keys(SelectSeq(schema.columns, LAMBDA p : p[2].primary_key))
  IN IF Len(pkey_fields) > 0 THEN pkey_fields ELSE <<None>>

\* a < b for two key views: a proper subset
ProperSubset(a, b) == a \subseteq b /\ a # b

\* assert_equal_to returns: nothing was raised.
Passed == [status |-> "ok", what |-> "", columns |-> {}]

\* The loop of assert_equal_to over other_dict from the i-th column on: the
\* error of the first column that is not in self_dict or whose type differs.
RECURSIVE TypesLoop(_, _, _)
TypesLoop(self_dict, other_dict, i) ==
  IF i > Len(other_dict) THEN Passed
  ELSE LET col == other_dict[i][1]
       IN IF ~HasKey(self_dict, col)
          THEN [status |-> "KeyError", what |-> "key", columns |-> {col}]
          ELSE IF other_dict[i][2] # Get(self_dict, col)
          THEN [status |-> "AssertionError", what |-> "type", columns |-> {col}]
          ELSE TypesLoop(self_dict, other_dict, i + 1)

\* assert_equal_to with the extra-columns check made whatever allow_superset is.
assert_equal_to_strict(schema, that, allow_superset, ignore_primary_keys) ==
  LET self_dict == typehints(schema)
      other_dict == typehints(that)
      types == TypesLoop(self_dict, other_dict, 1)
  IN IF ProperSubset(KeySet(self_dict), KeySet(other_dict))
     THEN [status |-> "AssertionError", what |-> "missing",
           columns |-> KeySet(other_dict) \ KeySet(self_dict)]
     ELSE IF types.status # "ok"
     THEN types
     ELSE IF ProperSubset(KeySet(other_dict), KeySet(self_dict))
     THEN [status |-> "AssertionError", what |-> "extra",
           columns |-> KeySet(self_dict) \ KeySet(other_dict)]
     ELSE IF ~ignore_primary_keys
             /\ primary_key_columns(schema) # primary_key_columns(that)
     THEN [status |-> "AssertionError", what |-> "primary_key", columns |-> {}]
     ELSE Passed

\* SchemaMetaclass.assert_equal_to(self, other, allow_superset=..,
\* ignore_primary_keys=..): "ok", or the error raised and the columns it names
assert_equal_to(schema, that, allow_superset, ignore_primary_keys) ==
  LET self_dict == typehints(schema)
      other_dict == typehints(that)
      types == TypesLoop(self_dict, other_dict, 1)
  IN IF ProperSubset(KeySet(self_dict), KeySet(other_dict))
     THEN [status |-> "AssertionError", what |-> "missing",
           columns |-> KeySet(other_dict) \ KeySet(self_dict)]
     ELSE IF types.status # "ok"
     THEN types
     ELSE IF ~allow_superset /\ ProperSubset(KeySet(other_dict), KeySet(self_dict))
     THEN [status |-> "AssertionError", what |-> "extra",
           columns |-> KeySet(self_dict) \ KeySet(other_dict)]
     ELSE IF ~ignore_primary_keys
             /\ primary_key_columns(schema) # primary_key_columns(that)
     THEN [status |-> "AssertionError", what |-> "primary_key", columns |-> {}]
     ELSE Passed

\* The loop of is_subschema over left.keys() from the i-th key on.
RECURSIVE SubtypeLoop(_, _, _)
SubtypeLoop(left, right, i) ==
  IF i > Len(left.dtypes) THEN TRUE
  ELSE LET k == left.dtypes[i][1]
       IN IF ~dtype_issubclass(Get(left.dtypes, k), Get(right.dtypes, k))
          THEN FALSE
          ELSE SubtypeLoop(left, right, i + 1)

\* is_subschema comparing the key lists, in order, instead of the key views.
is_subschema_ordered(left, right) ==
  IF Keys(left.columns) # Keys(right.columns) THEN FALSE
  ELSE SubtypeLoop(left, right, 1)

\* is_subschema(left, right)
is_subschema(left, right) ==
  IF keys(left) # keys(right) THEN FALSE ELSE SubtypeLoop(left, right, 1)

\* _as_tuple with the schema's name in the tuple.
_as_tuple_named(schema) == <<schema.properties, schema.columns, schema.name>>

\* SchemaMetaclass._as_tuple
_as_tuple(schema) == <<schema.properties, schema.columns>>

\* SchemaMetaclass.__eq__
SchemaEq(schema, that) == _as_tuple(schema) = _as_tuple(that)

\* hash() of the values a schema's tuple holds: a number computed from the
\* value alone, the same for equal values (and for some unequal ones).
HashBool(b) == IF b THEN 1 ELSE 0

HashStr(str) ==
  CASE str = "x" -> 3 [] str = "y" -> 5 [] str = "z" -> 7 [] str = "w" -> 11
    [] str = "INT" -> 13 [] str = "STR" -> 17 [] str = "FLOAT" -> 19
    [] str = "ANY" -> 23 [] str = "Optional(INT)" -> 29
    [] str = "A" -> 31 [] str = "B" -> 37
    [] OTHER -> 2

HashColumn(col) ==
  HashBool(col.primary_key) + 2 * HashStr(col.default_value)
  + 3 * HashStr(col.dtype) + 5 * HashStr(col.name) + 7 * HashBool(col.append_only)

RECURSIVE HashItems(_, _)
HashItems(items, i) ==
  IF i > Len(items) THEN 0
  ELSE i * (HashStr(items[i][1]) + HashColumn(items[i][2])) + HashItems(items, i + 1)

HashTuple(t) == HashBool(t[1].append_only) + 2 * HashItems(t[2], 1)

\* SchemaMetaclass.__hash__
SchemaHash(schema) == HashTuple(_as_tuple(schema))

\* ------------------------------------------------------------------ inputs

\* The dicts with at most MaxCols keys from Names, in every order, and with
\* values from vals.
DictsOver(vals) ==
  UNION {{[i \in 1..Len(ks) |-> <<ks[i], f[i]>>] : f \in [1..Len(ks) -> vals]} :
           ks \in DistinctSeqs(Names, MaxCols)}

\* The schemas schema_builder makes of the column definitions defs, under
\* either setting of append_only.
BuiltFrom(defs, name) ==
  {r \in {schema_builder(columns, name, SchemaProperties(a)) :
            columns \in DictsOver(defs), a \in BOOLEAN} : r.status = "ok"}

Idle == [op |-> "idle"]

\* ------------------------------------------- comparing two schemas

\* Column definitions of the schemas that are compared: two types, one of
\* them a subtype of the other, and a primary-key column.
CompareDefs ==
  {column_definition(FALSE, Undefined, "INT", None),
   column_definition(TRUE, Undefined, "INT", None),
   column_definition(FALSE, Undefined, "Optional(INT)", None)}

InitCompare ==
  /\ self \in BuiltFrom(CompareDefs, <<"A">>)
  /\ other \in BuiltFrom(CompareDefs, <<"B">>)
  /\ call = Idle

\* self.assert_equal_to(other, allow_superset=.., ignore_primary_keys=..)
AssertEqualToCall ==
  \E allow_superset \in BOOLEAN, ignore_primary_keys \in BOOLEAN :
    /\ call' = [op |-> "assert_equal_to",
                allow_superset |-> allow_superset,
                ignore_primary_keys |-> ignore_primary_keys,
                result |-> assert_equal_to(self, other, allow_superset,
                                           ignore_primary_keys)]
    /\ UNCHANGED <<self, other>>

\* is_subschema(self, other)
IsSubschemaCall ==
  /\ call' = [op |-> "is_subschema", result |-> is_subschema(self, other)]
  /\ UNCHANGED <<self, other>>

\* self == other, hash(self), hash(other)
EqCall ==
  /\ call' = [op |-> "eq", result |-> SchemaEq(self, other),
              hash_self |-> SchemaHash(self), hash_other |-> SchemaHash(other)]
  /\ UNCHANGED <<self, other>>

NextCompare == AssertEqualToCall \/ IsSubschemaCall \/ EqCall

SpecCompare == InitCompare /\ [][NextCompare]_vars

\* ------------------------------------------------------- CSV type inference

\* The fields a CSV file's rows hold.
Cells == {"1", "1.5", "foo"}

\* int(s) and float(s) return for these strings and raise ValueError for the
\* others.
ParsesAs(s, parse_fun) ==
  CASE parse_fun = "int" -> s \in {"1"}
    [] parse_fun = "float" -> s \in {"1", "1.5"}

\* _is_parsable_to(s, parse_fun)
_is_parsable_to(s, parse_fun) == ParsesAs(s, parse_fun)

\* itertools.islice(rows, n)
islice(rows, n) == SubSeq(rows, 1, IF n < Len(rows) THEN n ELSE Len(rows))

\* choose_type trying float before int.
choose_type_float_first(entries) ==
  IF Len(entries) = 0 THEN "Any"
  ELSE IF \A i \in 1..Len(entries) : _is_parsable_to(entries[i], "float") THEN "float"
  ELSE IF \A i \in 1..Len(entries) : _is_parsable_to(entries[i], "int") THEN "int"
  ELSE "str"

\* choose_type(entries) of schema_from_csv
choose_type(entries) ==
  IF Len(entries) = 0 THEN "Any"
  ELSE IF \A i \in 1..Len(entries) : _is_parsable_to(entries[i], "int") THEN "int"
  ELSE IF \A i \in 1..Len(entries) : _is_parsable_to(entries[i], "float") THEN "float"
  ELSE "str"

\* An empty file: csv.DictReader(...).fieldnames is None.
NoHeader == <<None>>

\* The rows csv.DictReader yields: one dict per data row, keyed by the header.
DictRows(header, rows) ==
  list([r \in 1..Len(rows) |->
          list([i \in 1..Len(header) |-> <<header[i], rows[r][i]>>])])

\* num_parsed_rows=None; a cap of n rows is <<n>>.
NoCap == <<>>

\* schema_from_csv(path, name=.., properties=.., num_parsed_rows=..) for the
\* file at path holding the header line and the data rows.
schema_from_csv(header, rows, name, properties, num_parsed_rows) ==
  IF header = NoHeader THEN Raised("ValueError")
  ELSE LET column_names == header
           csv_reader == DictRows(header, rows)
           csv_data == IF num_parsed_rows = NoCap THEN csv_reader
                       ELSE islice(csv_reader, num_parsed_rows[1])
           column_types ==
             list([i \in 1..Len(column_names) |->
                     <<column_names[i],
                       choose_type(list([r \in 1..Len(csv_data) |->
                                           Get(csv_data[r], column_names[i])]))>>])
           columns ==
             list([i \in 1..Len(column_names) |->
                     <<column_names[i],
                       column_definition(FALSE, Undefined,
                                         Get(column_types, column_names[i]),
                                         None)>>])
       IN schema_builder(columns, name, properties)

\* The headers of the CSV files: distinct names, or no header at all (an
\* empty file).
Headers == {NoHeader} \cup (DistinctSeqs(Names, MaxCols) \ {<<>>})

\* The data rows of a file with n rows under header h: one field per name.
RowsOf(h, n) == IF h = NoHeader THEN {<<>>} ELSE [1..n -> [1..Len(h) -> Cells]]

InitCsv ==
  /\ self = NoSchema
  /\ other = NoSchema
  /\ call = Idle

\* self = schema_from_csv(path, num_parsed_rows=..)
SchemaFromCsvCall ==
  /\ call.op = "idle"
  /\ \E header \in Headers, n \in 0..MaxRows,
        num_parsed_rows \in {NoCap} \cup {<<c>> : c \in 0..MaxRows} :
       \E rows \in RowsOf(header, n) :
         LET result == schema_from_csv(header, rows, NoName,
                                       SchemaProperties(FALSE), num_parsed_rows)
         IN /\ call' = [op |-> "schema_from_csv", header |-> header,
                        rows |-> rows, num_parsed_rows |-> num_parsed_rows,
                        result |-> result]
            /\ self' = result
            /\ UNCHANGED other

NextCsv == SchemaFromCsvCall

SpecCsv == InitCsv /\ [][NextCsv]_vars

\* ------------------------------------------------------ building schemas

\* Longest __name__ schema_add is called to form.
MaxNameLen == 5

\* The column definitions given to schema_builder: a typed primary-key
\* column, a typed column with a default value, and an untyped column that is
\* renamed to the first column name.
Definitions ==
  {column_definition(TRUE, Undefined, "int", None),
   column_definition(FALSE, "0", "str", None),
   column_definition(FALSE, Undefined, None, ColName[1])}

\* The native types given as annotations and as type overrides.
NativeTypes == {"int", "float"}

Init ==
  /\ self = NoSchema
  /\ other = NoSchema
  /\ call = Idle

\* self = schema_builder(columns, properties=SchemaProperties(append_only=a)),
\* the first schema a run builds
SchemaBuilderCall ==
  /\ self = NoSchema
  /\ \E columns \in DictsOver(Definitions), a \in BOOLEAN :
    LET result == schema_builder(columns, NoName, SchemaProperties(a))
    IN /\ call' = [op |-> "schema_builder", columns |-> columns,
                   properties |-> SchemaProperties(a), result |-> result]
       /\ self' = IF result.status = "ok" THEN result ELSE self
       /\ other' = NoSchema

\* self = schema_from_types(**kwargs), the first schema a run builds
SchemaFromTypesCall ==
  /\ self = NoSchema
  /\ \E kwargs \in DictsOver(NativeTypes) :
    LET result == schema_from_types(NoName, kwargs)
    IN /\ call' = [op |-> "schema_from_types", kwargs |-> kwargs,
                   result |-> result]
       /\ self' = IF result.status = "ok" THEN result ELSE self
       /\ other' = NoSchema

\* other, self = self, self.update_types(**kwargs)
UpdateTypesCall ==
  /\ self.status = "ok"
  /\ \E kwargs \in DictsOver({"float"}) :
       LET result == update_types(self, kwargs)
       IN /\ call' = [op |-> "update_types", receiver |-> self,
                      kwargs |-> kwargs, result |-> result]
          /\ self' = IF result.status = "ok" THEN result ELSE self
          /\ other' = self

\* other, self = self, schema_add(*schemas), the schemas among self and other
SchemaAddCall ==
  /\ self.status = "ok"
  /\ \E schemas \in {<<self>>} \cup
                    (IF other.status = "ok"
                     THEN {<<self, other>>, <<other, self>>} ELSE {}) :
       LET result == schema_add(schemas)
       IN /\ Len(JoinNames(schemas, 1)) <= MaxNameLen
          /\ call' = [op |-> "schema_add", schemas |-> schemas,
                      result |-> result]
          /\ self' = IF result.status = "ok" THEN result ELSE self
          /\ other' = self

Next ==
  \/ SchemaBuilderCall
  \/ SchemaFromTypesCall
  \/ UpdateTypesCall
  \/ SchemaAddCall

Spec == Init /\ [][Next]_vars

\* ------------------------------------------------- adding two schemas

InitAdd ==
  /\ self \in BuiltFrom(Definitions, <<"A">>)
  /\ other \in BuiltFrom(Definitions, <<"B">>)
  /\ call = Idle

\* schema_add(*schemas) of self and other, in either order, or of self alone
AddCall ==
  /\ call.op = "idle"
  /\ \E schemas \in {<<self>>, <<self, other>>, <<other, self>>} :
       /\ call' = [op |-> "schema_add", schemas |-> schemas,
                   result |-> schema_add(schemas)]
       /\ UNCHANGED <<self, other>>

\* SchemaMetaclass.__or__(self, other)
SchemaOr(schema, that) == schema_add(<<schema, that>>)

\* self | other
OrCall ==
  /\ call.op = "idle"
  /\ call' = [op |-> "or", schemas |-> <<self, other>>,
              result |-> SchemaOr(self, other)]
  /\ UNCHANGED <<self, other>>

NextAdd == AddCall \/ OrCall

SpecAdd == InitAdd /\ [][NextAdd]_vars

\* ------------------------------- adding schemas of different attributes

\* The attribute names other than Names.
MoreNames == {ColName[MaxCols + 1], ColName[MaxCols + 2]}

\* The schemas schema_builder makes of the column definitions defs under the
\* attribute names of names, under either setting of append_only.
BuiltOn(names, defs, name) ==
  {r \in UNION {{schema_builder([i \in 1..Len(ks) |-> <<ks[i], f[i]>>], name,
                                SchemaProperties(a)) :
                   f \in [1..Len(ks) -> defs], a \in BOOLEAN} :
                  ks \in DistinctSeqs(names, MaxCols)} : r.status = "ok"}

InitOrder ==
  /\ self \in BuiltFrom(Definitions, <<"A">>)
  /\ other \in BuiltOn(MoreNames, Definitions, <<"B">>)
  /\ call = Idle

SpecOrder == InitOrder /\ [][NextAdd]_vars

\* ------------------------------------------------ pandas-sample inference

\* What _type_converter tells apart in a value of a pandas Series: a tuple or
\* list, a null (None, NaN, NaT, pd.NA), a numpy array, any other value.
ValueKinds == {"sequence", "null", "ndarray", "scalar"}

\* series.dtype: the nullable integer and boolean dtypes, float64, string,
\* object, the two datetime64[ns] dtypes, timedelta64[ns], and one dtype that
\* none of the tests of _type_converter recognises.
SeriesDTypes ==
  {"Int64", "float64", "boolean", "string", "object", "datetime64[ns]",
   "datetime64[ns, UTC]", "timedelta64[ns]", "category"}

\* The values a Series of the dtype holds: anything in an object Series, a
\* value of the dtype or a null in the others.
ValuesOf(dtype) ==
  IF dtype = "object" THEN ValueKinds ELSE {"scalar", "null"}

\* pd.Series(values, dtype=dtype)
Series(dtype, values) == [dtype |-> dtype, values |-> values]

\* pd.api.types.is_integer_dtype(series.dtype)
is_integer_dtype(dtype) == dtype = "Int64"

\* pd.api.types.is_float_dtype(series.dtype)
is_float_dtype(dtype) == dtype = "float64"

\* pd.api.types.is_bool_dtype(series.dtype)
is_bool_dtype(dtype) == dtype = "boolean"

\* pd.api.types.is_string_dtype(series.dtype): given a dtype and not the
\* array, pandas takes the object dtype for a string dtype.
is_string_dtype(dtype) == dtype \in {"string", "object"}

\* pd.api.types.is_datetime64_ns_dtype(series.dtype)
is_datetime64_ns_dtype(dtype) ==
  dtype \in {"datetime64[ns]", "datetime64[ns, UTC]"}

\* series.dt.tz is None
tz_is_None(dtype) == dtype = "datetime64[ns]"

\* pd.api.types.is_timedelta64_dtype(series.dtype)
is_timedelta64_dtype(dtype) == dtype = "timedelta64[ns]"

\* pd.api.types.is_object_dtype(series.dtype)
is_object_dtype(dtype) == dtype = "object"

\* dt.Optional(ret_type)
Optional(ret_type) == "Optional(" \o ret_type \o ")"

\* The if/elif chain of _type_converter on series.dtype.
ret_type_of(dtype) ==
  IF is_integer_dtype(dtype) THEN "INT"
  ELSE IF is_float_dtype(dtype) THEN "FLOAT"
  ELSE IF is_bool_dtype(dtype) THEN "BOOL"
  ELSE IF is_string_dtype(dtype) THEN "STR"
  ELSE IF is_datetime64_ns_dtype(dtype)
  THEN IF tz_is_None(dtype) THEN "DATE_TIME_NAIVE" ELSE "DATE_TIME_UTC"
  ELSE IF is_timedelta64_dtype(dtype) THEN "DURATION"
  ELSE IF is_object_dtype(dtype) THEN "ANY"
  ELSE "ANY"

\* _type_converter testing for nulls before it tests for sequences.
_type_converter_null_first(series) ==
  LET values == series.values
      ret_type == ret_type_of(series.dtype)
  IN IF \A i \in 1..Len(values) : values[i] = "null" THEN "NONE"
     ELSE IF \A i \in 1..Len(values) : values[i] = "sequence" THEN "ANY_TUPLE"
     ELSE IF \A i \in 1..Len(values) : values[i] = "ndarray" THEN "ARRAY"
     ELSE IF \E i \in 1..Len(values) : values[i] = "null"
     THEN Optional(ret_type)
     ELSE ret_type

\* _type_converter(series)
_type_converter(series) ==
  LET values == series.values
      ret_type == ret_type_of(series.dtype)
  IN IF \A i \in 1..Len(values) : values[i] = "sequence" THEN "ANY_TUPLE"
     ELSE IF \A i \in 1..Len(values) : values[i] = "null" THEN "NONE"
     ELSE IF \A i \in 1..Len(values) : values[i] = "ndarray" THEN "ARRAY"
     ELSE IF \E i \in 1..Len(values) : values[i] = "null"
     THEN Optional(ret_type)
     ELSE ret_type

\* id_from=None
NoIdFrom == <<None>>

\* for name in id_from:
\*     columns[name] = dataclasses.replace(columns[name], primary_key=True)
RECURSIVE IdFromLoop(_, _, _)
IdFromLoop(columns, id_from, i) ==
  IF i > Len(id_from) THEN [status |-> "ok", columns |-> columns]
  ELSE IF ~HasKey(columns, id_from[i]) THEN Raised("KeyError")
  ELSE IdFromLoop(Put(columns, id_from[i],
                      [Get(columns, id_from[i]) EXCEPT !.primary_key = TRUE]),
                  id_from, i + 1)

\* schema_from_pandas(dframe, id_from=.., name=..): dframe is the dict of the
\* frame's columns.  The loop over id_from binds the variable name, so the
\* schema is named after the last column of id_from when there is one.
schema_from_pandas(dframe, id_from, name) ==
  LET given == IF name = NoName
               THEN <<"schema_from_pandas">> \o Keys(dframe) ELSE name
      ids == IF id_from = NoIdFrom THEN <<>> ELSE id_from
      columns == list([i \in 1..Len(dframe) |->
                         <<dframe[i][1],
                           column_definition(FALSE, Undefined,
                                             _type_converter(dframe[i][2]),
                                             None)>>])
      marked == IdFromLoop(columns, ids, 1)
      bound == IF Len(ids) > 0 THEN <<ids[Len(ids)]>> ELSE given
  IN IF marked.status # "ok" THEN marked
     ELSE schema_builder(marked.columns, bound, SchemaProperties(TRUE))

\* The columns the frames are made of: two rows each.
FrameColumns ==
  {Series("Int64", <<"scalar", "scalar">>),
   Series("float64", <<"scalar", "null">>),
   Series("object", <<"sequence", "sequence">>),
   Series("object", <<"null", "null">>)}

InitPandas ==
  /\ self = NoSchema
  /\ other = NoSchema
  /\ call = Idle

\* _type_converter(series) of a Series of at most MaxRows values
TypeConverterCall ==
  /\ call.op = "idle"
  /\ \E dtype \in SeriesDTypes, n \in 0..MaxRows :
       \E values \in [1..n -> ValuesOf(dtype)] :
         /\ call' = [op |-> "_type_converter",
                     series |-> Series(dtype, values),
                     result |-> _type_converter(Series(dtype, values))]
         /\ UNCHANGED <<self, other>>

\* self = schema_from_pandas(dframe, id_from=id_from)
SchemaFromPandasCall ==
  /\ call.op = "idle"
  /\ \E dframe \in DictsOver(FrameColumns),
        id_from \in {NoIdFrom} \cup DistinctSeqs(Names, MaxCols) :
       LET result == schema_from_pandas(dframe, id_from, NoName)
       IN /\ call' = [op |-> "schema_from_pandas", dframe |-> dframe,
                      id_from |-> id_from, result |-> result]
          /\ self' = IF result.status = "ok" THEN result ELSE self
          /\ other' = NoSchema

NextPandas == TypeConverterCall \/ SchemaFromPandasCall

SpecPandas == InitPandas /\ [][NextPandas]_vars

\* ------------------------------------------------------ the dict adapter

\* A Python value that is a dict, as the pairs of its items; True and False
\* inside it are the strings "True" and "False".
PyDict(items) == [isdict |-> TRUE, items |-> items]

\* A Python value that is no dict: a type, or a string naming one.
PyValue(value) == [isdict |-> FALSE, items |-> <<<<"value", value>>>>]

\* The strings that name a type; the string 'int' is written "'int'", the
\* class int "int".
TypeNames == {"'int'", "'float'", "'str'"}

\* pydoc.locate(path), for the name of a builtin type
locate(path) ==
  CASE path = "'int'" -> "int"
    [] path = "'float'" -> "float"
    [] path = "'str'" -> "str"
    [] OTHER -> None

\* get_dtype(dtype) of schema_from_dict
get_dtype(dtype) ==
  wrap(IF dtype \in TypeNames THEN locate(dtype) ELSE dtype)

\* column_definition(**entry): the keyword arguments column_definition takes
\* are primary_key, default_value, dtype and name.
column_definition_of(entry) ==
  IF \E i \in 1..Len(entry) :
       entry[i][1] \notin {"primary_key", "default_value", "dtype", "name"}
  THEN Raised("TypeError")
  ELSE [status |-> "ok",
        definition |->
          column_definition(
            IF HasKey(entry, "primary_key")
            THEN Get(entry, "primary_key") = "True" ELSE FALSE,
            IF HasKey(entry, "default_value")
            THEN Get(entry, "default_value") ELSE Undefined,
            Get(entry, "dtype"),
            IF HasKey(entry, "name") THEN Get(entry, "name") ELSE None)]

\* create_column_definition(entry) of schema_from_dict: what it returns or
\* raises, made, and the caller's value as the call leaves it, entry.  The
\* assignment entry["dtype"] = .. writes to the caller's dict when the value
\* is a dict, and to a new dict otherwise.
create_column_definition(entry) ==
  LET given == IF entry.isdict THEN entry.items
               ELSE <<<<"dtype", entry.items[1][2]>>>>
      dtype == get_dtype(IF HasKey(given, "dtype")
                         THEN Get(given, "dtype") ELSE "Any")
      assigned == Put(given, "dtype", dtype)
  IN [made |-> column_definition_of(assigned),
      entry |-> IF entry.isdict THEN PyDict(assigned) ELSE entry]

\* The comprehension of schema_from_dict from the i-th item of columns on:
\* columns is the caller's dict as the calls so far left it.
RECURSIVE ColumnDefinitionsLoop(_, _, _)
ColumnDefinitionsLoop(columns, i, column_definitions) ==
  IF i > Len(columns)
  THEN [status |-> "ok", columns |-> columns,
        column_definitions |-> column_definitions]
  ELSE LET created == create_column_definition(columns[i][2])
           written == [columns EXCEPT ![i] = <<columns[i][1], created.entry>>]
       IN IF created.made.status # "ok"
          THEN [status |-> created.made.status, columns |-> written,
                column_definitions |-> column_definitions]
          ELSE ColumnDefinitionsLoop(
                 written, i + 1,
                 Append(column_definitions,
                        <<columns[i][1], created.made.definition>>))

\* SchemaProperties(**properties)
SchemaPropertiesOf(properties) ==
  SchemaProperties(IF HasKey(properties.items, "append_only")
                   THEN Get(properties.items, "append_only") = "True"
                   ELSE FALSE)

\* schema_from_dict(columns, name=.., properties=..): what it returns or
\* raises, result, and the caller's dict after the call, columns.
schema_from_dict(columns, name, properties) ==
  LET looped == ColumnDefinitionsLoop(columns, 1, <<>>)
      props == IF "isdict" \in DOMAIN properties
               THEN SchemaPropertiesOf(properties) ELSE properties
  IN [result |-> IF looped.status # "ok" THEN Raised(looped.status)
                 ELSE schema_builder(looped.column_definitions, name, props),
      columns |-> looped.columns]

\* The values of the columns dict: a type, the name of a type, and dicts
\* with a named type, with no dtype, with a DType, with a misspelt key.
DictEntries ==
  {PyValue("int"),
   PyValue("'str'"),
   PyDict(<<<<"dtype", "'int'">>, <<"primary_key", "True">>>>),
   PyDict(<<<<"default_value", "0">>>>),
   PyDict(<<<<"dtype", "INT">>>>),
   PyDict(<<<<"type", "'int'">>>>)}

InitDict ==
  /\ self = NoSchema
  /\ other = NoSchema
  /\ call = Idle

\* self = schema_from_dict(columns, properties=properties); the call record
\* keeps the caller's columns as they were before and as they are after.
SchemaFromDictCall ==
  /\ call.op = "idle"
  /\ \E columns \in DictsOver(DictEntries),
        properties \in {SchemaProperties(a) : a \in BOOLEAN} \cup
                       {PyDict(<<>>), PyDict(<<<<"append_only", "True">>>>)} :
       LET done == schema_from_dict(columns, NoName, properties)
       IN /\ call' = [op |-> "schema_from_dict", columns |-> columns,
                      properties |-> properties, after |-> done.columns,
                      result |-> done.result]
          /\ self' = IF done.result.status = "ok" THEN done.result ELSE self
          /\ other' = NoSchema

NextDict == SchemaFromDictCall

SpecDict == InitDict /\ [][NextDict]_vars

\* ------------------------------------------------------------------ claims

\* The types two schemas give their common columns are the same.
SameTypes(schema, that) ==
  \A c \in keys(schema) \cap keys(that) :
    Get(typehints(schema), c) = Get(typehints(that), c)

\* C1: assert_equal_to fails with a missing-columns error that lists all the
\* missing names whenever other has a column that self has not, whatever
\* allow_superset and ignore_primary_keys are, also when self has columns that
\* other lacks.
C1_MissingColumnsReported ==
  (call.op = "assert_equal_to" /\ keys(other) \ keys(self) # {})
    => /\ call.result.status = "AssertionError"
       /\ call.result.what = "missing"
       /\ call.result.columns = keys(other) \ keys(self)

\* C4: is_subschema(A, B) is true exactly when A and B have the same set of
\* column names, in whatever order, and each column's dtype in A is a subtype
\* of its dtype in B; it is false when the key sets differ, also when one is a
\* subset of the other.
C4_SubschemaIff ==
  call.op = "is_subschema"
    => /\ call.result
            <=> /\ keys(self) = keys(other)
                /\ \A k \in keys(self) :
                     dtype_issubclass(Get(self.dtypes, k), Get(other.dtypes, k))
       /\ keys(self) # keys(other) => ~call.result

\* C4's case: a true answer for two schemas whose columns are in different
\* orders and whose types differ.
C4_Witness ==
  /\ call.op = "is_subschema"
  /\ call.result
  /\ Keys(self.columns) # Keys(other.columns)
  /\ self.dtypes # other.dtypes
  /\ \E k \in keys(self) : Get(self.dtypes, k) # Get(other.dtypes, k)

\* C6: when all of other's columns are in self with the same types,
\* assert_equal_to(allow_superset=False) fails with an extra-columns error
\* if self has a column that other lacks; the same pair passes with
\* allow_superset=True; and schemas with the same columns and types pass
\* under the default flags.
C6_ExtraColumns ==
  (/\ call.op = "assert_equal_to"
   /\ keys(other) \subseteq keys(self)
   /\ SameTypes(self, other))
    => /\ (keys(self) # keys(other) /\ ~call.allow_superset)
            => /\ call.result.status = "AssertionError"
               /\ call.result.what = "extra"
               /\ call.result.columns = keys(self) \ keys(other)
       /\ (keys(self) # keys(other) /\ call.allow_superset
           /\ call.ignore_primary_keys)
            => call.result.status = "ok"
       /\ (keys(self) = keys(other) /\ ~call.allow_superset
           /\ call.ignore_primary_keys)
            => call.result.status = "ok"

\* C6's case: self has a column more than other, the common column has the
\* same type, and the call with allow_superset=True passed.
C6_Witness ==
  /\ call.op = "assert_equal_to"
  /\ keys(other) # {}
  /\ keys(other) \subseteq keys(self)
  /\ keys(other) # keys(self)
  /\ SameTypes(self, other)
  /\ call.allow_superset
  /\ call.ignore_primary_keys
  /\ call.result.status = "ok"

\* C7: two schemas are equal exactly when their properties are equal and
\* their ordered (name, column) sequences are equal: the schema's name plays
\* no part, the same columns in another order are unequal; equal schemas
\* have the same hash.
C7_EqualityAndHash ==
  call.op = "eq"
    => /\ call.result
            <=> /\ self.properties = other.properties
                /\ Len(self.columns) = Len(other.columns)
                /\ \A i \in 1..Len(self.columns) :
                     /\ self.columns[i][1] = other.columns[i][1]
                     /\ self.columns[i][2] = other.columns[i][2]
       /\ (Range(self.columns) = Range(other.columns)
           /\ Keys(self.columns) # Keys(other.columns)) => ~call.result
       /\ call.result => call.hash_self = call.hash_other

\* C7's case: two schemas of two columns with different names are equal and
\* have the same hash.
C7_Witness ==
  /\ call.op = "eq"
  /\ call.result
  /\ self.name # other.name
  /\ Len(self.columns) = 2
  /\ call.hash_self = call.hash_other

\* The column names of a schema that is one of two schemas added.
ColumnOf(schema, c) == Get(schema.columns, c)

\* Column c of result has the dtype, primary-key flag and default value it
\* has in schema.
KeptFrom(result, schema, c) ==
  /\ ColumnOf(result, c).dtype = ColumnOf(schema, c).dtype
  /\ ColumnOf(result, c).primary_key = ColumnOf(schema, c).primary_key
  /\ ColumnOf(result, c).default_value = ColumnOf(schema, c).default_value

\* C2: schema_add of schemas with disjoint column names returns a schema
\* whose column names are the union of theirs, each column with the dtype,
\* primary-key flag and default value of its input; schema_add of schemas that
\* share a column name fails, and returns no schema.
C2_DisjointUnion ==
  (call.op = "schema_add" /\ Len(call.schemas) = 2)
    => LET a == call.schemas[1]
           b == call.schemas[2]
       IN IF keys(a) \cap keys(b) = {}
          THEN /\ call.result.status = "ok"
               /\ keys(call.result) = keys(a) \cup keys(b)
               /\ \A c \in keys(a) : KeptFrom(call.result, a, c)
               /\ \A c \in keys(b) : KeptFrom(call.result, b, c)
          ELSE call.result.status = "AssertionError"

\* The column name a definition given under key resolves to.
ResolvedName(key, definition) ==
  IF definition.name # None THEN definition.name ELSE key

\* C3: schema_builder rejects column definitions of which two resolve to the
\* same column name, and a schema it returns has as many columns as there
\* were definitions.
C3_DuplicatesRejected ==
  call.op = "schema_builder"
    => LET n == Len(call.columns)
           resolved == [i \in 1..n |->
                          ResolvedName(call.columns[i][1], call.columns[i][2])]
       IN /\ (\E i, j \in 1..n : i # j /\ resolved[i] = resolved[j])
               => call.result.status # "ok"
          /\ call.result.status = "ok" => Len(call.result.columns) = n

\* C5: update_types returns a schema with the same column names in the same
\* order and the same properties, each overridden column with its new dtype
\* and every column with its primary-key flag, default value and name; it
\* fails with an unknown-column error when a key is no column name; the
\* schema it was called on is as it was.
C5_UpdateTypes ==
  call.op = "update_types"
    => LET old == call.receiver
           new == call.result
       IN /\ other = old
          /\ IF KeySet(call.kwargs) \subseteq keys(old)
             THEN /\ new.status = "ok"
                  /\ new.properties = old.properties
                  /\ Keys(new.columns) = Keys(old.columns)
                  /\ \A i \in 1..Len(old.columns) :
                       LET c == old.columns[i][1]
                       IN new.columns[i][2] =
                            [old.columns[i][2] EXCEPT !.dtype =
                               IF HasKey(call.kwargs, c)
                               THEN wrap(Get(call.kwargs, c)) ELSE @]
             ELSE new.status = "ValueError"

\* C5's case: the type of a primary-key column of a two-column schema was
\* overridden.
C5_Witness ==
  /\ call.op = "update_types"
  /\ call.result.status = "ok"
  /\ Len(call.receiver.columns) = 2
  /\ Len(call.kwargs) = 1
  /\ \E c \in keys(call.receiver) :
       /\ HasKey(call.kwargs, c)
       /\ ColumnOf(call.receiver, c).primary_key
       /\ ColumnOf(call.result, c).dtype # ColumnOf(call.receiver, c).dtype

\* The schemas a state holds.
SchemasHeld ==
  {s \in {self, other} \cup (IF call.op = "idle" THEN {} ELSE {call.result}) :
     s.status = "ok"}

Sampled(rows, num_parsed_rows) ==
  {r \in 1..Len(rows) : num_parsed_rows = NoCap \/ r <= num_parsed_rows[1]}

\* C9: schema_from_csv with num_parsed_rows = 0 gives every column type str.
C9_ZeroRowsAllStr ==
  (call.op = "schema_from_csv" /\ call.num_parsed_rows = <<0>>
   /\ call.header # NoHeader)
    => /\ call.result.status = "ok"
       /\ \A i \in 1..Len(call.result.columns) :
            call.result.columns[i][2].dtype = "STR"

\* C10: schema_from_csv gives the columns the header's names in the header's
\* order, and each column with sampled values the type int if all of them
\* parse as int, else float if all of them parse as float, else str; the
\* sampled values are those of the first num_parsed_rows rows when a cap is
\* given.
C10_CsvInference ==
  (call.op = "schema_from_csv" /\ call.header # NoHeader)
    => LET rows == Sampled(call.rows, call.num_parsed_rows)
       IN /\ call.result.status = "ok"
          /\ Keys(call.result.columns) = call.header
          /\ rows # {}
               => \A i \in 1..Len(call.header) :
                    call.result.columns[i][2].dtype =
                      IF \A r \in rows : call.rows[r][i] \in {"1"} THEN "INT"
                      ELSE IF \A r \in rows : call.rows[r][i] \in {"1", "1.5"}
                      THEN "FLOAT" ELSE "STR"

\* C10's case: a file of two columns and two rows read with a cap of one
\* row, whose first column is int by its first row and would be str by both.
C10_Witness ==
  /\ call.op = "schema_from_csv"
  /\ call.header # NoHeader
  /\ Len(call.header) = 2
  /\ Len(call.rows) = 2
  /\ call.num_parsed_rows = <<1>>
  /\ call.rows[1][1] = "1"
  /\ call.rows[2][1] = "foo"
  /\ call.rows[1][2] = "1.5"
  /\ call.result.status = "ok"
  /\ call.result.columns[1][2].dtype = "INT"
  /\ call.result.columns[2][2].dtype = "FLOAT"

\* The type of the storage kind of a Series: int, float, bool, str (the
\* string and object dtypes), naive datetime, UTC datetime, duration, else any.
StorageType(dtype) ==
  CASE dtype = "Int64" -> "INT"
    [] dtype = "float64" -> "FLOAT"
    [] dtype = "boolean" -> "BOOL"
    [] dtype \in {"string", "object"} -> "STR"
    [] dtype = "datetime64[ns]" -> "DATE_TIME_NAIVE"
    [] dtype = "datetime64[ns, UTC]" -> "DATE_TIME_UTC"
    [] dtype = "timedelta64[ns]" -> "DURATION"
    [] OTHER -> "ANY"

\* Every value of the Series is of the kind; true of a Series with no values.
AllValues(series, kind) ==
  \A i \in 1..Len(series.values) : series.values[i] = kind

\* The first of the four steps that applies to the Series.
StepReached(series) ==
  CASE AllValues(series, "sequence") -> 1
    [] ~AllValues(series, "sequence") /\ AllValues(series, "null") -> 2
    [] /\ ~AllValues(series, "sequence")
       /\ ~AllValues(series, "null")
       /\ AllValues(series, "ndarray") -> 3
    [] OTHER -> 4

\* The type the first-match rule gives the Series.
InferredType(series) ==
  CASE StepReached(series) = 1 -> "ANY_TUPLE"
    [] StepReached(series) = 2 -> "NONE"
    [] StepReached(series) = 3 -> "ARRAY"
    [] OTHER ->
         IF "null" \in Range(series.values)
         THEN Optional(StorageType(series.dtype))
         ELSE StorageType(series.dtype)

\* C11: schema_from_pandas gives each column the type of the first step that
\* applies: all values sequences -> tuple type, all values null -> none type,
\* all values arrays -> array type, otherwise the type of the storage kind,
\* wrapped in Optional exactly when this last step was reached and a value is
\* null; also for a column with no values.  The schema is append-only, with
\* append-only columns in the frame's order, and its primary-key columns are
\* exactly the columns listed in id_from.
C11_PandasInference ==
  /\ call.op = "_type_converter" =>
       call.result = InferredType(call.series)
  /\ (call.op = "schema_from_pandas" /\ call.result.status = "ok") =>
       /\ call.result.properties.append_only
       /\ Keys(call.result.columns) = Keys(call.dframe)
       /\ \A i \in 1..Len(call.dframe) :
            LET col == call.result.columns[i][2]
                ids == IF call.id_from = NoIdFrom THEN {}
                       ELSE Range(call.id_from)
            IN /\ col.dtype = InferredType(call.dframe[i][2])
               /\ col.append_only
               /\ col.primary_key <=> call.dframe[i][1] \in ids
  /\ call.op = "schema_from_pandas" =>
       (call.result.status = "ok" <=>
          (call.id_from = NoIdFrom \/
             Range(call.id_from) \subseteq KeySet(call.dframe)))

\* C11's case: schema_from_pandas built a schema of a column with a null, its
\* type wrapped in Optional, and of a primary-key column listed in id_from.
C11_Witness ==
  /\ call.op = "schema_from_pandas"
  /\ call.result.status = "ok"
  /\ call.id_from # NoIdFrom
  /\ \E i, j \in 1..Len(call.result.columns) :
       /\ call.result.columns[i][2].dtype = "Optional(FLOAT)"
       /\ ~call.result.columns[i][2].primary_key
       /\ call.result.columns[j][2].dtype = "NONE"
       /\ call.result.columns[j][2].primary_key

\* C12: schema_from_dict leaves the caller's columns dict, and every value in
\* it, as they were before the call, whether the call returns or raises.
C12_InputsUnchanged ==
  call.op = "schema_from_dict" => call.after = call.columns

\* The column names of the schemas from the i-th back to the first.
RECURSIVE LastFirst(_, _)
LastFirst(schemas, i) ==
  IF i = 0 THEN <<>>
  ELSE Keys(schemas[i].columns) \o LastFirst(schemas, i - 1)

\* The declarations (attribute and type) of the schemas from the i-th back
\* to the first.
RECURSIVE DeclaredLastFirst(_, _)
DeclaredLastFirst(schemas, i) ==
  IF i = 0 THEN <<>>
  ELSE schemas[i].annotations \o DeclaredLastFirst(schemas, i - 1)

\* No element occurs twice in the sequence.
Distinct(s) == \A i, j \in 1..Len(s) : s[i] = s[j] => i = j

C14_AddResetsProperties ==
  /\ (call.op = "schema_add" /\ call.result.status = "ok") =>
       /\ call.result.properties = SchemaProperties(FALSE)
       /\ \A i \in 1..Len(call.result.columns) :
            ~call.result.columns[i][2].append_only
  /\ (call.op = "update_types" /\ call.result.status = "ok") =>
       call.result.properties = call.receiver.properties

\* C14's case: schema_add of append-only schemas, each with append-only
\* columns, returned a schema with columns.
C14_Witness ==
  /\ call.op = "schema_add"
  /\ call.result.status = "ok"
  /\ Len(call.result.columns) > 0
  /\ \A i \in 1..Len(call.schemas) :
       /\ call.schemas[i].properties.append_only
       /\ \A j \in 1..Len(call.schemas[i].columns) :
            call.schemas[i].columns[j][2].append_only

====
